---- MODULE Spec2Model ----
(***************************************************************************)
(* A model of the request-construction core of the python client in        *)
(* src/api.py: the filter compiler (Api.process_filters), the async-task   *)
(* lifecycle (submit / polling_async_task / resolve_async_task), the       *)
(* result shaping (get_rows, group_by), the payload builders               *)
(* (build_payload, build_read_payload), the storage credential cache       *)
(* (enable_s3, _setup_s3_client) and the request signing (_s3_request).    *)
(*                                                                         *)
(* Python values are tagged records: a record's k field names the Python   *)
(* type, so that a list and a string are never confused.                   *)
(***************************************************************************)
EXTENDS Integers, Sequences, FiniteSets, TLC

VARIABLES
    filter_in,    \* the filters argument handed to process_filters
    filter_out,   \* what process_filters returned or raised ("none" before the call)
    shape_in,     \* one element of a CRUD response body: {success, rows, paging, groups, message}
    shape_op,     \* the result-shaping method called on it
    shape_out,    \* what that method returned or raised
    async_mode,   \* self._async_mode
    pc,           \* where the calling thread is in the method it runs
    call,         \* the public method being run and its arguments
    wire,         \* what the running call has sent, received and slept so far, in order
    response,     \* the `response` variable of _polling_http_request
    result,       \* what the running call returned or raised
    task,         \* the task id the caller holds from its last successful submit
    build_in,     \* the arguments of one payload-building call
    build_out,    \* the payload list that call built
    sign_in,      \* the inputs of one _s3_request: method, body, cached credentials
    sign_out,     \* the headers, signed-header list and canonical lines of that request
    s3_credentials,   \* self._s3_credentials
    s3_client,        \* whether self._s3_client has been created
    now,              \* the wall clock
    th,               \* each calling thread: its position and its local variables
    responses,        \* the refresh responses the server has given so far, in order
    last_signed,      \* the last storage request _s3_request signed
    failed_refreshes, \* the refreshes that ended in an exception
    calls             \* how many storage calls the threads have made so far

varsFilter == <<filter_in, filter_out>>
varsShape == <<shape_in, shape_op, shape_out>>
varsAsync == <<async_mode, pc, call, wire, response, result, task>>
varsBuild == <<build_in, build_out>>
varsSign == <<sign_in, sign_out>>
varsS3 == <<s3_credentials, s3_client, now, th, responses, last_signed,
           failed_refreshes, calls>>

vars == <<filter_in, filter_out, shape_in, shape_op, shape_out,
          async_mode, pc, call, wire, response, result, task,
          build_in, build_out, sign_in, sign_out,
          s3_credentials, s3_client, now, th, responses, last_signed,
          failed_refreshes, calls>>

(***************************************************************************)
(* Bounds of the model.                                                    *)
(***************************************************************************)
\* the largest number of sub-expressions in one nested filter list
MaxSubs == 2
\* the largest number of rows in one response payload
MaxRows == 2
\* the largest number of group descriptors in one response payload
MaxGroups == 2
\* the largest number of "still running" answers to one polling call
MaxPolls == 3

(***************************************************************************)
(* Python values used by the filter DSL.                                   *)
(***************************************************************************)
Str(s) == [k |-> "str", s |-> s]
Lst(items) == [k |-> "list", items |-> items]

IsStr(v) == v.k = "str"
IsList(v) == v.k = "list"

\* Python truthiness of a string or a list
Truthy(v) == IF IsStr(v) THEN v.s # "" ELSE Len(v.items) > 0

NotRun == [k |-> "none"]
Raised(exc) == [k |-> "error", exc |-> exc]
IsError(r) == r.k = "error"

(***************************************************************************)
(* Api.process_filters                                                     *)
(***************************************************************************)
Leaf(path, relation, values) ==
    [k |-> "leaf", path |-> path, relation |-> relation, values |-> values]

Group(operator, conditions) ==
    [k |-> "group", operator |-> operator, conditions |-> conditions]

\* operator in ["or", "and"]
IsOperatorToken(v) == IsStr(v) /\ v.s \in {"or", "and"}

\* all(map(lambda f: isinstance(f, list), filters))
AllLists(filters) == \A i \in DOMAIN filters : IsList(filters[i])

\* a mutant: the relation is not validated
ValidLeaf_LengthOnly(filters) == Len(filters) = 3

\* the two assertions on a leaf: len(filters) == 3 and filters[1]
ValidLeaf(filters) == Len(filters) = 3 /\ Truthy(filters[2])

\* a mutant: the value is wrapped in a list even when it is one already
LeafValues_AlwaysWrap(value) == <<value>>

\* filters[2] if isinstance(filters[2], list) else [filters[2]]
LeafValues(value) == IF IsList(value) THEN value.items ELSE <<value>>

\* the first exception raised while the sub-expressions are compiled in order
FirstError(results) ==
    results[CHOOSE i \in DOMAIN results :
                /\ IsError(results[i])
                /\ \A j \in 1..(i - 1) : ~IsError(results[j])]

RECURSIVE process_filters(_)
process_filters(filters) ==
    LET inject == 0
        fallback_filters == filters
    IN
    IF Len(filters) = 0 THEN Raised("IndexError")
    ELSE
    LET head == filters[1]
        operator == IF IsOperatorToken(head) THEN head.s ELSE "and"
        rest == IF IsOperatorToken(head) THEN Tail(filters) ELSE filters
    IN
    IF AllLists(rest)
    THEN LET results == [i \in DOMAIN rest |-> process_filters(rest[i].items)]
         IN IF \E i \in DOMAIN results : IsError(results[i])
            THEN FirstError(results)
            ELSE Group(operator, results)
    ELSE IF ~ValidLeaf(fallback_filters) THEN Raised("AssertionError")
    ELSE LET condition == Leaf(fallback_filters[1], fallback_filters[2],
                               LeafValues(fallback_filters[3]))
         IN IF inject = 0
            THEN Group(operator, <<condition>>)
            ELSE condition

(***************************************************************************)
(* Response payloads.  One element of a CRUD response body is the dict     *)
(* {success, rows, paging?, groups?, message?}; an optional key is a       *)
(* tagged value that says whether the key is present.                      *)
(***************************************************************************)
Absent == [k |-> "absent"]

\* "paging": {"page_size": n}
Paging(n) == [k |-> "paging", page_size |-> n]

\* "groups": [{display_name, ids}, ...]
GroupDescriptor(display_name, ids) == [display_name |-> display_name, ids |-> ids]
Groups(list) == [k |-> "groups", list |-> list]

\* "message": a string, a {"detail": ...} dict, or some other JSON structure
MsgStr(s) == [k |-> "str", s |-> s]
MsgDetail(d) == [k |-> "detail", detail |-> d]
MsgDetailNull == [k |-> "detail_null"]
MsgOther == [k |-> "other"]

EmptyDict == [k |-> "empty"]
Item(success, rows, paging, groups, message) ==
    [k |-> "item", success |-> success, rows |-> rows, paging |-> paging,
     groups |-> groups, message |-> message]

\* what a call returns: a list of rows, a single row object, a list of groups
RowsValue(rows) == [k |-> "rows", rows |-> rows]
RowValue(row) == [k |-> "row", row |-> row]
GroupsValue(groups) == [k |-> "groups", groups |-> groups]
RaisedMsg(exc, msg) == [k |-> "error", exc |-> exc, msg |-> msg]

\* json.dumps(message) of a message that is neither a string nor a {detail} dict
JsonDumps(message) == IF message = Absent THEN "null" ELSE "{\"code\": 42}"

(***************************************************************************)
(* Api._extract_message                                                    *)
(***************************************************************************)
_extract_message(message) ==
    IF message.k = "str" THEN message.s
    ELSE IF message.k = "detail" THEN message.detail
    \* message.get("detail") or ""
    ELSE IF message.k = "detail_null" THEN ""
    ELSE JsonDumps(message)

(***************************************************************************)
(* Api.get_rows                                                            *)
(***************************************************************************)
\* a mutant: any page size makes the page a single-item page
PageSizeIsOne_AnySize(paging) == paging.k = "paging"

\* pages.get("page_size", None) == 1
PageSizeIsOne(paging) == paging.k = "paging" /\ paging.page_size = 1

\* a mutant: the first row is returned whatever the paging is
get_rows_IgnoresPaging(payload) ==
    IF Len(payload.rows) > 0
    THEN RowValue(payload.rows[1])
    ELSE RowsValue(payload.rows)

get_rows(payload) ==
    IF PageSizeIsOne(payload.paging) /\ Len(payload.rows) > 0
    THEN RowValue(payload.rows[1])
    ELSE RowsValue(payload.rows)

(***************************************************************************)
(* Api.group_by                                                            *)
(***************************************************************************)
\* for row in rows: if row.get("id") == id: ... break
\* (the index of the first row with that id, 0 when there is none)
FirstMatch(rows, id) ==
    IF \E i \in DOMAIN rows : rows[i].id = id
    THEN CHOOSE i \in DOMAIN rows :
            /\ rows[i].id = id
            /\ \A j \in 1..(i - 1) : rows[j].id # id
    ELSE 0

\* a mutant: a row already attached to the group is not attached again
RECURSIVE Children_Dedup(_, _)
Children_Dedup(rows, ids) ==
    IF Len(ids) = 0 THEN <<>>
    ELSE LET front == Children_Dedup(rows, SubSeq(ids, 1, Len(ids) - 1))
             m == FirstMatch(rows, ids[Len(ids)])
         IN IF m = 0 \/ (\E j \in DOMAIN front : front[j] = rows[m])
            THEN front
            ELSE Append(front, rows[m])

\* the loop `for id in ids` over a list of rows: new_group["children"]
RECURSIVE Children(_, _)
Children(rows, ids) ==
    IF Len(ids) = 0 THEN <<>>
    ELSE LET front == Children(rows, SubSeq(ids, 1, Len(ids) - 1))
             m == FirstMatch(rows, ids[Len(ids)])
         IN IF m = 0 THEN front ELSE Append(front, rows[m])

group_by(payload) ==
    LET rows == get_rows(payload)
        groups == payload.groups
    IN
    \* for group in None
    IF groups = Absent THEN Raised("TypeError")
    \* rows is a dict: `for row in rows` yields its keys, and str has no .get
    ELSE IF rows.k = "row" /\ \E g \in DOMAIN groups.list : Len(groups.list[g].ids) > 0
    THEN Raised("AttributeError")
    ELSE GroupsValue([g \in DOMAIN groups.list |->
            [display_name |-> groups.list[g].display_name,
             children |-> IF rows.k = "row" THEN <<>>
                          ELSE Children(rows.rows, groups.list[g].ids)]])

(***************************************************************************)
(* Api._extract_payload                                                    *)
(***************************************************************************)
\* payload.get("groups") is truthy
HasGroups(payload) == payload.groups # Absent /\ Len(payload.groups.list) > 0

_extract_payload(payload) ==
    IF Len(payload) = 0 THEN Raised("IndexError")
    ELSE LET first == payload[1] IN
    IF first = EmptyDict
    THEN RaisedMsg("UnknownError", "Should has failed detail but payload is empty.")
    ELSE IF first.success
         THEN IF HasGroups(first) THEN group_by(first) ELSE get_rows(first)
         ELSE RaisedMsg("RequestFailed",
                        "Request Failed: " \o _extract_message(first.message))

(***************************************************************************)
(* The transport: urllib.request.urlopen answers a request with a response *)
(* (a status and a JSON body) or raises URLError.                          *)
(***************************************************************************)
HttpResponse(status, body) == [k |-> "response", status |-> status, body |-> body]
URLErrorOutcome == [k |-> "urlerror"]
NoResponse == [k |-> "none"]

\* the body of the response to an async CRUD request: {success, task_id?, message?}
SubmitBody(success, task_id, message) ==
    [k |-> "submit_body", success |-> success, task_id |-> task_id, message |-> message]

\* the body of the response to a task status request: {success, data?, message?}
StatusBody(success, data, message) ==
    [k |-> "status_body", success |-> success, data |-> data, message |-> message]

\* the body of a response with an HTTP error status: a dict, or a list of one dict
ErrDict(success, message) == [k |-> "err_dict", success |-> success, message |-> message]
JsonList(items) == [k |-> "json_list", items |-> items]

TaskValue(id) == [k |-> "task", id |-> id]
NoTask == [k |-> "none"]

\* the status code that means "not finished yet"
StillRunning == 202

(***************************************************************************)
(* Api._process_http_error                                                 *)
(***************************************************************************)
_process_http_error(body) ==
    LET payload == IF body.k = "json_list" THEN body.items[1] ELSE body IN
    IF payload = EmptyDict
    THEN RaisedMsg("UnknownError", "Should has failed detail but payload is empty.")
    ELSE IF payload.success
    THEN RaisedMsg("UnknownError",
                   "This request should be failed, maybe server get confused.")
    \* "ERROR: " + payload.get("message", {}).get("detail")
    ELSE IF payload.message.k = "str" THEN Raised("AttributeError")
    ELSE IF payload.message.k = "detail"
    THEN RaisedMsg("RequestFailed", "ERROR: " \o payload.message.detail)
    ELSE Raised("TypeError")

(***************************************************************************)
(* Api._http_request: the response urlopen returned, or the exception      *)
(* raised in its place.                                                    *)
(***************************************************************************)
\* urllib raises HTTPError for a status outside 2xx
IsHttpError(status) == ~(200 <= status /\ status < 300)

_http_request(outcome) ==
    IF outcome.k = "urlerror" THEN Raised("URLError")
    ELSE IF IsHttpError(outcome.status) THEN _process_http_error(outcome.body)
    ELSE outcome

(***************************************************************************)
(* Api._processs_async_payload, Api._process_response                      *)
(***************************************************************************)
_processs_async_payload(payload) ==
    IF payload.success
    THEN TaskValue(payload.task_id.s)
    ELSE RaisedMsg("RequestFailed", "Request Failed: " \o _extract_message(payload.message))

\* mode is what self.get_async_mode() returns when the response is processed.
\* A synchronous answer is a JSON list of items and an asynchronous one a
\* JSON object: payload["success"] on a list raises TypeError, payload[0] on
\* an object raises KeyError.
_process_response(mode, body) ==
    IF mode
    THEN IF body.k = "json_list" THEN Raised("TypeError")
         ELSE _processs_async_payload(body)
    ELSE IF body.k = "json_list" THEN _extract_payload(body.items)
         ELSE Raised("KeyError")

(***************************************************************************)
(* Api._process_async_task_response                                        *)
(***************************************************************************)
_process_async_task_response(body) ==
    IF ~body.success
    THEN RaisedMsg("RequestFailed", "Request Failed: " \o _extract_message(body.message))
    ELSE _extract_payload(body.data)

\* the nested function of _polling_http_request, with a wrong status code
_is_async_task_running_WrongCode(resp) == resp.status = 200

\* the nested function of _polling_http_request: response.status == 202
_is_async_task_running(resp) == resp.status = StillRunning

\* json.dumps(self.get_async_mode())
JsonBool(b) == IF b THEN "true" ELSE "false"

(***************************************************************************)
(* Api.build_payload, Api.build_read_payload, Api.get_pages                *)
(***************************************************************************)
PyNone == [k |-> "None"]
\* a dict, as the set of its <<key, value>> items
Dict(entries) == [k |-> "dict", entries |-> entries]

\* Python truthiness of an argument: None, a string, a list or a dict
PyTruthy(v) ==
    IF v.k = "None" THEN FALSE
    ELSE IF v.k = "dict" THEN v.entries # {}
    ELSE Truthy(v)

\* the payload dict: a key that was not set is Absent
Payload(request_type, entity_type) ==
    [request_type |-> request_type, entity_type |-> entity_type,
     columns |-> Absent, data |-> Absent, filters |-> Absent, sorts |-> Absent,
     grouping |-> Absent, paging |-> Absent, filter_setting |-> Absent]

\* Api.get_pages
get_pages(pages) == pages

\* Api.build_payload
build_payload(request_type, entity_type, fields, data) ==
    LET p0 == Payload(request_type, entity_type)
        p1 == IF PyTruthy(fields) THEN [p0 EXCEPT !.columns = fields] ELSE p0
        p2 == IF PyTruthy(data) THEN [p1 EXCEPT !.data = data] ELSE p1
    IN Lst(<<p2>>)

\* a mutant: paging is set only when pages is given, like the other keys
build_read_payload_OptionalPaging(entity_type, fields, filters, sorts, groups, pages, additional_filters) ==
    LET p0 == Payload("read", entity_type)
        p1 == IF PyTruthy(fields) THEN [p0 EXCEPT !.columns = fields] ELSE p0
        compiled == IF PyTruthy(filters) THEN process_filters(filters.items) ELSE Absent
        p2 == IF PyTruthy(filters) THEN [p1 EXCEPT !.filters = compiled] ELSE p1
        p3 == IF PyTruthy(sorts) THEN [p2 EXCEPT !.sorts = sorts] ELSE p2
        p4 == IF PyTruthy(groups) THEN [p3 EXCEPT !.grouping = groups] ELSE p3
        p5 == IF PyTruthy(pages) THEN [p4 EXCEPT !.paging = get_pages(pages)] ELSE p4
        p6 == IF PyTruthy(additional_filters)
              THEN [p5 EXCEPT !.filter_setting = additional_filters] ELSE p5
    IN IF IsError(compiled) THEN compiled ELSE Lst(<<p6>>)

\* Api.build_read_payload; an exception of process_filters propagates
build_read_payload(entity_type, fields, filters, sorts, groups, pages, additional_filters) ==
    LET p0 == Payload("read", entity_type)
        p1 == IF PyTruthy(fields) THEN [p0 EXCEPT !.columns = fields] ELSE p0
        compiled == IF PyTruthy(filters) THEN process_filters(filters.items) ELSE Absent
        p2 == IF PyTruthy(filters) THEN [p1 EXCEPT !.filters = compiled] ELSE p1
        p3 == IF PyTruthy(sorts) THEN [p2 EXCEPT !.sorts = sorts] ELSE p2
        p4 == IF PyTruthy(groups) THEN [p3 EXCEPT !.grouping = groups] ELSE p3
        p5 == [p4 EXCEPT !.paging = get_pages(pages)]
        p6 == IF PyTruthy(additional_filters)
              THEN [p5 EXCEPT !.filter_setting = additional_filters] ELSE p5
    IN IF IsError(compiled) THEN compiled ELSE Lst(<<p6>>)

(***************************************************************************)
(* Api._s3_request: the headers of a storage request and their signing.    *)
(* A dict is the sequence of its <<key, value>> items in insertion order.  *)
(***************************************************************************)
\* d[key] = value
DictSet(d, key, value) ==
    IF \E i \in DOMAIN d : d[i][1] = key
    THEN [i \in DOMAIN d |-> IF d[i][1] = key THEN <<key, value>> ELSE d[i]]
    ELSE Append(d, <<key, value>>)

DictHas(d, key) == \E i \in DOMAIN d : d[i][1] = key
DictKeys(d) == [i \in DOMAIN d |-> d[i][1]]

\* str.lower() on the header names a storage request carries
Lower(name) ==
    CASE name = "Authorization" -> "authorization"
      [] name = "Content-Type" -> "content-type"
      [] name = "Content-Length" -> "content-length"
      [] name = "Content-MD5" -> "content-md5"
      [] name = "Host" -> "host"
      [] name = "User-Agent" -> "user-agent"
      [] name = "X-Amz-Security-Token" -> "x-amz-security-token"
      [] OTHER -> name

\* the lower-case header names in the order Python compares strings
NameOrder ==
    <<"authorization", "content-length", "content-md5", "content-type", "host",
      "user-agent", "x-amz-content-sha256", "x-amz-date", "x-amz-security-token">>
Rank(name) == CHOOSE i \in DOMAIN NameOrder : NameOrder[i] = name

\* sorted(canonical_headers.items()): insertion of one item at its place
InsertSorted(sorted, item) ==
    LET before == SelectSeq(sorted, LAMBDA x : Rank(x[1]) < Rank(item[1]))
        after == SelectSeq(sorted, LAMBDA x : Rank(x[1]) > Rank(item[1]))
    IN before \o <<item>> \o after

RECURSIVE Sorted(_)
Sorted(items) ==
    IF items = <<>> THEN <<>>
    ELSE InsertSorted(Sorted(SubSeq(items, 1, Len(items) - 1)), items[Len(items)])

\* sep.join(strings)
RECURSIVE Join(_, _)
Join(strings, sep) ==
    IF strings = <<>> THEN ""
    ELSE IF Len(strings) = 1 THEN strings[1]
    ELSE strings[1] \o sep \o Join(Tail(strings), sep)

\* re.compile(r"( +)").sub(" ", value) on the header values of the model
CollapseSpaces(value) == IF value = "to  k" THEN "to k" ELSE value

\* a mutant: user-agent is not left out of the signed headers
UnsignedHeaders_NoUserAgent == {"authorization", "content-type", "content-length"}

\* the names the canonical headers leave out
UnsignedHeaders == {"authorization", "content-type", "content-length", "user-agent"}

\* the loop that fills canonical_headers from headers, in order
RECURSIVE CanonicalDict(_)
CanonicalDict(headers) ==
    IF headers = <<>> THEN <<>>
    ELSE LET done == CanonicalDict(SubSeq(headers, 1, Len(headers) - 1))
             key == Lower(headers[Len(headers)][1])
             value == headers[Len(headers)][2]
         IN IF key \notin UnsignedHeaders
            THEN DictSet(done, key, CollapseSpaces(value))
            ELSE done

\* the body read from file_object: None, b"" or three bytes
NoBody == [k |-> "None"]
Bytes(n) == [k |-> "bytes", len |-> n]
BodyTruthy(body) == body.k = "bytes" /\ body.len > 0
\* str(len(body))
LenStr(body) == IF body.len = 0 THEN "0" ELSE "3"

\* utils._md5sum_hash: None (the empty string here, falsy as None is) for
\* no body, else the base64 MD5 of the body
_md5sum_hash(body) ==
    IF body.k = "None" THEN "" ELSE IF body.len = 0 THEN "md5-0" ELSE "md5-3"

\* utils._to_amz_date and utils._to_signer_date of a date
_to_amz_date(date) == date \o "T000000Z"
_to_signer_date(date) == date

\* utils._sha256_hash and utils._hmac_hash: the digest of a message, the
\* keyed digest of a message under a key, as terms over their inputs
_sha256_hash(message) == "sha256(" \o message \o ")"
_hmac_hash(key, message) == "hmac(" \o key \o "," \o message \o ")"

\* "; ".join(USER_AGENTS)
UserAgent == "Mozilla/5.0; orchestra-api (0.0.2)"

\* the canonical header lines: f"{key}:{value}" for each item
CanonicalLines(canonical) ==
    [i \in DOMAIN canonical |-> canonical[i][1] \o ":" \o canonical[i][2]]

\* Api._s3_request, up to the call of self._s3_client.urlopen: generated
\* is what utils._generate_headers(None, None, None, None, False) returned
_s3_request(method, object_name, body, credentials, generated, date) ==
    LET service_name == "s3"
        end_point == credentials.EndPoint
        region == credentials.Region
        bucket == credentials.Bucket
        access_key == credentials.AccessKeyId
        secret_key == credentials.SecretAccessKey
        url == [scheme |-> IF credentials.Secure THEN "https" ELSE "http",
                netloc |-> end_point,
                path |-> "/" \o bucket \o "/" \o object_name]
        h1 == DictSet(generated, "Content-Type", "application/octet-stream")
        md5sum_added == DictHas(h1, "Content-MD5")
        h2 == DictSet(h1, "Host", url.netloc)
        h3 == DictSet(h2, "User-Agent", UserAgent)
        h4 == IF BodyTruthy(body) THEN DictSet(h3, "Content-Length", LenStr(body)) ELSE h3
        md5sum == IF md5sum_added THEN "" ELSE _md5sum_hash(body)
        h5 == IF md5sum # "" THEN DictSet(h4, "Content-MD5", md5sum) ELSE h4
        sha256 == "UNSIGNED-PAYLOAD"
        h6 == DictSet(h5, "x-amz-content-sha256", sha256)
        h7 == DictSet(h6, "X-Amz-Security-Token", credentials.SessionToken)
        h8 == DictSet(h7, "x-amz-date", _to_amz_date(date))
        scope == _to_signer_date(date) \o "/" \o region \o "/" \o service_name
                 \o "/aws4_request"
        canonical == Sorted(CanonicalDict(h8))
        signed_headers == Join(DictKeys(canonical), ";")
        canonical_headers == Join(CanonicalLines(canonical), "\n")
        canonical_request ==
            method \o "\n" \o url.path \o "\n" \o "" \o "\n" \o canonical_headers
            \o "\n\n" \o signed_headers \o "\n" \o sha256
        string_to_sign ==
            "AWS4-HMAC-SHA256\n" \o _to_amz_date(date) \o "\n" \o scope \o "\n"
            \o _sha256_hash(canonical_request)
        date_key == _hmac_hash("AWS4" \o secret_key, _to_signer_date(date))
        date_region_key == _hmac_hash(date_key, region)
        date_region_service_key == _hmac_hash(date_region_key, service_name)
        signing_key == _hmac_hash(date_region_service_key, "aws4_request")
        signature == _hmac_hash(signing_key, string_to_sign)
        authorization ==
            "AWS4-HMAC-SHA256 Credential=" \o access_key \o "/" \o scope
            \o ", SignedHeaders=" \o signed_headers \o ", Signature=" \o signature
        h9 == DictSet(h8, "Authorization", authorization)
    IN [k |-> "request", method |-> method, url |-> url, body |-> body,
        headers |-> h9,
        signed_over |-> h8,
        signed_headers |-> signed_headers,
        canonical_headers |-> canonical_headers,
        signature |-> signature]

(***************************************************************************)
(* The filter expressions the compiler is applied to.                      *)
(***************************************************************************)
FieldNames == {"name", "or", "and"}
Relations == {"is", ""}
FilterValues == {Str("x"), Lst(<<>>), Lst(<<Str("x"), Str("y")>>)}

Triples == {<<Str(f), Str(r), v>> : f \in FieldNames, r \in Relations, v \in FilterValues}

FlatExprs ==
    Triples \cup
    { <<>>,
      <<Str("or")>>,
      <<Str("name"), Str("is")>>,
      <<Str("name"), Str("is"), Str("x"), Str("y")>>,
      <<Str("or"), Str("name"), Str("is"), Str("x")>> }

SeqsUpTo(S, lo, hi) == UNION {[1..m -> S] : m \in lo..hi}

\* a Python list whose elements are the given expressions
Wrap(exprs) == [i \in DOMAIN exprs |-> Lst(exprs[i])]

Heads == {<<>>, <<Str("or")>>, <<Str("and")>>}

SubLeaves ==
    {<<Str(f), Str(r), v>> : f \in {"name", "or"}, r \in Relations,
                             v \in {Str("x"), Lst(<<>>)}} \cup {<<>>}

Nested1 == {h \o Wrap(s) : h \in Heads, s \in SeqsUpTo(SubLeaves, 0, MaxSubs)}

CoreLeaves == {<<Str("name"), Str("is"), Str("x")>>, <<Str("name"), Str(""), Str("x")>>}

Nested1Core ==
    {h \o Wrap(s) : h \in {<<>>, <<Str("or")>>}, s \in SeqsUpTo(CoreLeaves, 1, MaxSubs)}

Nested2 ==
    {h \o Wrap(s) : h \in Heads, s \in SeqsUpTo(CoreLeaves \cup Nested1Core, 1, MaxSubs)}

FilterInputs == FlatExprs \cup Nested1 \cup Nested2

(***************************************************************************)
(* The arguments the payload builders are called with.                     *)
(***************************************************************************)
RequestTypes == {"create", "update", "delete"}
EntityTypes == {"Task"}
FieldArgs == {PyNone, Lst(<<>>), Lst(<<Str("id"), Str("name")>>)}
DataArgs == {PyNone, Lst(<<>>), Lst(<<[name |-> "Layout"]>>)}
\* read's default filters={}, an empty list, a triple, a triple list, and
\* two expressions process_filters rejects
FilterArgs ==
    {Dict({}), Lst(<<>>),
     Lst(<<Str("name"), Str("is"), Str("x")>>),
     Lst(<<Lst(<<Str("name"), Str("is"), Str("x")>>),
           Lst(<<Str("name"), Str("is"), Lst(<<>>)>>)>>),
     Lst(<<Str("name"), Str("is")>>),
     Lst(<<Lst(<<>>)>>)}
SortArgs == {Lst(<<>>), Lst(<<[column |-> "name", direction |-> "ASC"]>>)}
GroupArgs == {Lst(<<>>), Lst(<<[column |-> "entity", method |-> "exact"]>>)}
PageArgs == {Dict({}), Dict({<<"page", 1>>, <<"page_size", 5>>})}
AdditionalFilterArgs == {PyNone, Dict({<<"recycle", "exclude">>})}

BuildPayloadCalls ==
    {[fn |-> "build_payload", request_type |-> rt, entity_type |-> et,
      fields |-> f, data |-> d] :
        rt \in RequestTypes, et \in EntityTypes, f \in FieldArgs, d \in DataArgs}
BuildReadPayloadCalls ==
    {[fn |-> "build_read_payload", entity_type |-> et, fields |-> f, filters |-> fl,
      sorts |-> s, groups |-> g, pages |-> p, additional_filters |-> a] :
        et \in EntityTypes, f \in FieldArgs, fl \in FilterArgs, s \in SortArgs,
        g \in GroupArgs, p \in PageArgs, a \in AdditionalFilterArgs}

(***************************************************************************)
(* The response payloads the result shaping is applied to.                 *)
(***************************************************************************)
RowData == {[id |-> 7, name |-> "a"], [id |-> 7, name |-> "b"], [id |-> 8, name |-> "a"]}
RowLists == SeqsUpTo(RowData, 0, MaxRows)

Pagings == {Absent, Paging(1), Paging(2)}

IdLists == {<<>>, <<7>>, <<8, 7>>, <<7, 7>>, <<9, 8>>}
GroupDescriptors ==
    {GroupDescriptor("A", ids) : ids \in IdLists} \cup {GroupDescriptor("B", <<7>>)}
GroupLists == SeqsUpTo(GroupDescriptors, 0, MaxGroups)

Messages == {Absent, MsgStr("boom"), MsgDetail("denied"), MsgDetailNull, MsgOther}

SuccessItems ==
    {Item(TRUE, rows, paging, groups, Absent) :
        rows \in RowLists, paging \in Pagings,
        groups \in {Absent} \cup {Groups(l) : l \in GroupLists}}
FailureItems == {Item(FALSE, <<>>, Absent, Absent, m) : m \in Messages}

ShapeInputs == SuccessItems \cup FailureItems \cup {EmptyDict}

(***************************************************************************)
(* What the server may answer.                                             *)
(***************************************************************************)
TaskRowLists ==
    {<<>>, <<[id |-> 7, name |-> "Foo"]>>,
     <<[id |-> 7, name |-> "Foo"], [id |-> 8, name |-> "Bar"]>>}

TaskItems ==
    {EmptyDict} \cup FailureItems \cup
    {Item(TRUE, rows, paging, Absent, Absent) : rows \in TaskRowLists, paging \in Pagings} \cup
    {Item(TRUE, <<[id |-> 7, name |-> "Foo"]>>, Absent,
          Groups(<<GroupDescriptor("A", <<7>>)>>), Absent)}

StatusBodies ==
    {StatusBody(FALSE, <<>>, m) : m \in Messages} \cup
    {StatusBody(TRUE, <<item>>, Absent) : item \in TaskItems} \cup
    {StatusBody(TRUE, <<>>, Absent)}

ErrDicts == {EmptyDict, ErrDict(TRUE, Absent)} \cup {ErrDict(FALSE, m) : m \in Messages}
ErrBodies == ErrDicts \cup {JsonList(<<EmptyDict>>), JsonList(<<ErrDict(FALSE, MsgDetail("denied"))>>)}

\* the body sent along with the "still running" status
RunningBody == StatusBody(FALSE, <<>>, MsgStr("running"))

StatusOutcomes ==
    {HttpResponse(200, b) : b \in StatusBodies} \cup
    {HttpResponse(StillRunning, RunningBody)} \cup
    {HttpResponse(500, b) : b \in ErrBodies} \cup
    {URLErrorOutcome}

SubmitBodies ==
    {SubmitBody(TRUE, Str("abc"), Absent)} \cup
    {SubmitBody(FALSE, Absent, m) : m \in Messages}

SubmitOutcomes ==
    {HttpResponse(200, b) : b \in SubmitBodies} \cup
    {HttpResponse(500, b) : b \in ErrBodies} \cup
    {URLErrorOutcome}

\* the schema helpers, each with the CRUD method and entity type it passes
\* to _request_schema (create_entity_type_std calls create itself)
SchemaHelpers ==
    { [name |-> "create_entity_type", request_type |-> "create", entity_type |-> "EntityType"],
      [name |-> "update_entity_type", request_type |-> "update", entity_type |-> "EntityType"],
      [name |-> "delete_entity_type", request_type |-> "delete", entity_type |-> "EntityType"],
      [name |-> "create_field", request_type |-> "create", entity_type |-> "Field"],
      [name |-> "update_field", request_type |-> "update", entity_type |-> "Field"],
      [name |-> "delete_field", request_type |-> "delete", entity_type |-> "Field"],
      [name |-> "create_entity_type_std", request_type |-> "create",
       entity_type |-> "EntityType"] }

\* time.sleep(POLLING_INTERVAL)
POLLING_INTERVAL == 2

\* the events of the wire log
CrudRequest(request_type, entity_type, flag) ==
    [ev |-> "crud_request", request_type |-> request_type,
     entity_type |-> entity_type, async |-> flag]
StatusRequest(id) == [ev |-> "status_request", task_id |-> id]
Received(outcome) == [ev |-> "received", outcome |-> outcome]
Slept == [ev |-> "sleep", seconds |-> POLLING_INTERVAL]

NoCall == [op |-> "none"]

\* the request types of read, create, update and delete
CrudMethods == {"read"} \cup RequestTypes

\* what the server answers to a CRUD request: a task handle when the request
\* carries "async": "true", a list of items when it carries "false"
CrudBodies(flag) ==
    IF flag = "true" THEN SubmitBodies ELSE {JsonList(<<item>>) : item \in TaskItems}

CrudOutcomes(flag) ==
    {HttpResponse(200, b) : b \in CrudBodies(flag)} \cup
    {HttpResponse(500, b) : b \in ErrBodies} \cup
    {URLErrorOutcome}
HeldTask(id, helper) == [k |-> "held", id |-> id, helper |-> helper]

(***************************************************************************)
(* The storage credential cache and the threads that use it.               *)
(***************************************************************************)
\* the number of threads that call into one Api object
NumCallers == 2
\* the last instant of the wall clock
MaxClock == 2
\* the largest number of refresh requests the server answers
MaxRefreshes == 2
\* the largest number of storage calls the threads make in one run
MaxCalls == 2
\* how long after their issue the server lets credentials expire
SessionTTL == 1

Callers == 1 .. NumCallers

\* the keys of self._s3_credentials, in the order _setup_s3_client assigns them
CredentialKeys ==
    <<"EndPoint", "Secure", "Bucket", "Region",
      "AccessKeyId", "SecretAccessKey", "SessionToken", "Expiration">>
\* the keys _setup_s3_client takes from data["ack"]
AckKeys == {"AccessKeyId", "SecretAccessKey", "SessionToken", "Expiration"}
\* the keys _s3_request reads, in the order it reads them
RequestKeys ==
    <<"EndPoint", "Region", "Bucket", "AccessKeyId", "SecretAccessKey",
      "Secure", "SessionToken">>

\* the value of one key in the n-th refresh response
FieldOf(n) == [k |-> "field", of |-> n]
\* the "Expiration" string of the n-th refresh response, naming an instant
IsoString(n, instant) == [k |-> "iso", of |-> n, instant |-> instant]

\* self._s3_credentials = {}
NoCredentials == [key \in {CredentialKeys[i] : i \in DOMAIN CredentialKeys} |-> Absent]
\* the local variables of _s3_request before it has read anything
NoLocals == [key \in {RequestKeys[i] : i \in DOMAIN RequestKeys} |-> Absent]

\* the decoded body of a refresh response: complete, or without its "ack" block
RefreshPayload(n, shape, instant) == [id |-> n, shape |-> shape, expiration |-> instant]
NoPayload == RefreshPayload(0, "none", 0)

\* data[key], or data["ack"][key]
PayloadValue(data, key) ==
    IF key = "Expiration" THEN IsoString(data.id, data.expiration) ELSE FieldOf(data.id)

\* utils._parse_iso8601_string: the instant an ISO-8601 string names
_parse_iso8601_string(expiration) == expiration.instant

\* Api._is_s3_expired
_is_s3_expired(credentials, clock) ==
    LET expiration == credentials["Expiration"]
    IN IF expiration = Absent THEN TRUE
       ELSE _parse_iso8601_string(expiration) < clock

Returned == [k |-> "returned"]
NotSigned == [k |-> "none"]
Signed(method, fields, date) ==
    [k |-> "signed", method |-> method, fields |-> fields, date |-> date]

IdleThread == [pc |-> "idle", op |-> "none", i |-> 0, data |-> NoPayload,
               loc |-> NoLocals, result |-> NotRun]

(***************************************************************************)
(* The state machines.  Each specification exercises one component; the    *)
(* variables of the other components stay at rest.                         *)
(***************************************************************************)
FilterAtRest == filter_in = <<>> /\ filter_out = NotRun
ShapeAtRest == shape_in = EmptyDict /\ shape_op = "none" /\ shape_out = NotRun
AsyncAtRest ==
    /\ async_mode = FALSE
    /\ pc = "idle"
    /\ call = NoCall
    /\ wire = <<>>
    /\ response = NoResponse
    /\ result = NotRun
    /\ task = NoTask

(***************************************************************************)
BuildAtRest == build_in = [fn |-> "none"] /\ build_out = NotRun
SignAtRest == sign_in = [method |-> "none"] /\ sign_out = NotRun
S3AtRest ==
    /\ s3_credentials = NoCredentials
    /\ s3_client = FALSE
    /\ now = 0
    /\ th = [t \in Callers |-> IdleThread]
    /\ responses = <<>>
    /\ last_signed = NotSigned
    /\ failed_refreshes = {}
    /\ calls = 0

(* The filter compiler: the caller picks an expression and calls           *)
(* process_filters once.                                                   *)
(***************************************************************************)
InitFilter ==
    /\ filter_in \in FilterInputs
    /\ filter_out = NotRun
    /\ ShapeAtRest
    /\ AsyncAtRest
    /\ BuildAtRest
    /\ SignAtRest
    /\ S3AtRest

CallProcessFilters ==
    /\ filter_out = NotRun
    /\ filter_out' = process_filters(filter_in)
    /\ UNCHANGED <<filter_in, varsShape, varsAsync, varsBuild, varsSign, varsS3>>

NextFilter == CallProcessFilters

SpecFilter == InitFilter /\ [][NextFilter]_vars

(***************************************************************************)
(* Result shaping: a decoded payload is handed to get_rows, to group_by or *)
(* to _extract_payload (as the one-element list the server sends).         *)
(***************************************************************************)
InitShape ==
    /\ shape_in \in ShapeInputs
    /\ shape_op = "none"
    /\ shape_out = NotRun
    /\ FilterAtRest
    /\ AsyncAtRest
    /\ BuildAtRest
    /\ SignAtRest
    /\ S3AtRest

CallGetRows ==
    /\ shape_op = "none"
    /\ shape_in.k = "item"
    /\ shape_op' = "get_rows"
    /\ shape_out' = get_rows(shape_in)
    /\ UNCHANGED <<shape_in, varsFilter, varsAsync, varsBuild, varsSign, varsS3>>

CallGroupBy ==
    /\ shape_op = "none"
    /\ shape_in.k = "item"
    /\ shape_op' = "group_by"
    /\ shape_out' = group_by(shape_in)
    /\ UNCHANGED <<shape_in, varsFilter, varsAsync, varsBuild, varsSign, varsS3>>

CallExtractPayload ==
    /\ shape_op = "none"
    /\ shape_op' = "_extract_payload"
    /\ shape_out' = _extract_payload(<<shape_in>>)
    /\ UNCHANGED <<shape_in, varsFilter, varsAsync, varsBuild, varsSign, varsS3>>

NextShape == CallGetRows \/ CallGroupBy \/ CallExtractPayload

SpecShape == InitShape /\ [][NextShape]_vars

(***************************************************************************)
(* The async-task lifecycle: one calling thread submits schema operations, *)
(* then resolves or polls the task it was given.                           *)
(***************************************************************************)
InitAsync ==
    /\ AsyncAtRest
    /\ FilterAtRest
    /\ ShapeAtRest
    /\ BuildAtRest
    /\ SignAtRest
    /\ S3AtRest

\* the number of "still running" answers the running call has received
RunningAnswers(w) ==
    Cardinality({i \in DOMAIN w :
        /\ w[i].ev = "received"
        /\ w[i].outcome.k = "response"
        /\ w[i].outcome.status = StillRunning})

\* _request_schema / create_entity_type_std, up to the sending of the
\* request: set_async_mode(True), build_payload, process_payload, urlopen
Submit(helper) ==
    /\ pc = "idle"
    /\ async_mode' = TRUE
    \* mode_before remembers self._async_mode as it was when the helper was called
    /\ call' = [op |-> "submit", helper |-> helper.name, mode_before |-> async_mode]
    /\ wire' = <<CrudRequest(helper.request_type, helper.entity_type,
                             JsonBool(async_mode'))>>
    /\ pc' = "submit_wait"
    /\ UNCHANGED <<response, result, task, varsFilter, varsShape, varsBuild, varsSign, varsS3>>

\* the rest of _request_schema: _http_request returns or raises,
\* _process_response decodes, and set_async_mode(False) runs when nothing
\* was raised
SubmitReturn(outcome) ==
    /\ pc = "submit_wait"
    /\ LET delivered == _http_request(outcome)
           r == IF IsError(delivered) THEN delivered
                ELSE _process_response(async_mode, delivered.body)
       IN /\ result' = r
          /\ async_mode' = IF IsError(r) THEN async_mode ELSE FALSE
          /\ task' = IF r.k = "task" THEN HeldTask(r.id, call.helper) ELSE task
    /\ wire' = Append(wire, Received(outcome))
    /\ pc' = "done"
    /\ UNCHANGED <<call, response, varsFilter, varsShape, varsBuild, varsSign, varsS3>>

\* resolve_async_task, up to the sending of the status request
Resolve ==
    /\ pc = "idle"
    /\ task # NoTask
    /\ call' = [op |-> "resolve", task_id |-> task.id]
    /\ wire' = <<StatusRequest(task.id)>>
    /\ pc' = "resolve_wait"
    /\ UNCHANGED <<async_mode, response, result, task, varsFilter, varsShape, varsBuild, varsSign, varsS3>>

\* the rest of resolve_async_task
ResolveReturn(outcome) ==
    /\ pc = "resolve_wait"
    /\ LET delivered == _http_request(outcome)
       IN result' = IF IsError(delivered) THEN delivered
                    ELSE _process_async_task_response(delivered.body)
    /\ wire' = Append(wire, Received(outcome))
    /\ pc' = "done"
    /\ UNCHANGED <<async_mode, call, response, task, varsFilter, varsShape, varsBuild, varsSign, varsS3>>

\* polling_async_task is called: the request is built
PollStart ==
    /\ pc = "idle"
    /\ task # NoTask
    /\ call' = [op |-> "poll", task_id |-> task.id]
    /\ pc' = "poll_request"
    /\ UNCHANGED <<async_mode, wire, response, result, task, varsFilter, varsShape, varsBuild, varsSign, varsS3>>

\* _is_async_task_running: the status request is sent
PollRequest ==
    /\ pc = "poll_request"
    /\ wire' = Append(wire, StatusRequest(call.task_id))
    /\ pc' = "poll_wait"
    /\ UNCHANGED <<async_mode, call, response, result, task, varsFilter, varsShape, varsBuild, varsSign, varsS3>>

\* _is_async_task_running: _http_request returns the response, which is
\* assigned to `response`, or raises, which ends polling_async_task
PollReceive(outcome) ==
    /\ pc = "poll_wait"
    /\ (outcome.k = "response" /\ outcome.status = StillRunning)
          => RunningAnswers(wire) < MaxPolls
    /\ wire' = Append(wire, Received(outcome))
    /\ LET delivered == _http_request(outcome)
       IN IF IsError(delivered)
          THEN /\ result' = delivered
               /\ pc' = "done"
               /\ UNCHANGED response
          ELSE /\ response' = delivered
               /\ pc' = "poll_check"
               /\ UNCHANGED result
    /\ UNCHANGED <<async_mode, call, task, varsFilter, varsShape, varsBuild, varsSign, varsS3>>

\* the loop test `while _is_async_task_running(request)`, and when it is
\* false the return of `response` and its decoding
PollCheck ==
    /\ pc = "poll_check"
    /\ IF _is_async_task_running(response)
       THEN /\ pc' = "poll_sleep"
            /\ UNCHANGED result
       ELSE /\ result' = _process_async_task_response(response.body)
            /\ pc' = "done"
    /\ UNCHANGED <<async_mode, call, wire, response, task, varsFilter, varsShape, varsBuild, varsSign, varsS3>>

\* a mutant: the loop does not sleep between two requests
PollSleep_Busy ==
    /\ pc = "poll_sleep"
    /\ pc' = "poll_request"
    /\ UNCHANGED <<async_mode, call, wire, response, result, task, varsFilter, varsShape, varsBuild, varsSign, varsS3>>

\* time.sleep(POLLING_INTERVAL)
PollSleep ==
    /\ pc = "poll_sleep"
    /\ wire' = Append(wire, Slept)
    /\ pc' = "poll_request"
    /\ UNCHANGED <<async_mode, call, response, result, task, varsFilter, varsShape, varsBuild, varsSign, varsS3>>

\* the call has returned or raised; the caller goes on to its next call
Return ==
    /\ pc = "done"
    /\ pc' = "idle"
    /\ call' = NoCall
    /\ wire' = <<>>
    /\ response' = NoResponse
    /\ result' = NotRun
    /\ UNCHANGED <<async_mode, task, varsFilter, varsShape, varsBuild, varsSign, varsS3>>

PollSteps ==
    \/ PollRequest
    \/ \E outcome \in StatusOutcomes : PollReceive(outcome)
    \/ PollCheck
    \/ PollSleep

NextAsync ==
    \/ \E helper \in SchemaHelpers : Submit(helper)
    \/ \E outcome \in SubmitOutcomes : SubmitReturn(outcome)
    \/ Resolve
    \/ \E outcome \in StatusOutcomes : ResolveReturn(outcome)
    \/ PollStart
    \/ PollSteps
    \/ Return

SpecAsync == InitAsync /\ [][NextAsync]_vars

\* the calling thread keeps running: a request is answered or times out
\* (urlopen is given REQUEST_TIMEOUT), and the loop goes on to its next step
FairSpecAsync == SpecAsync /\ WF_vars(PollSteps)

(***************************************************************************)
(* One CRUD call (read, create, update, delete) on an Api object that      *)
(* another thread shares: process_payload serialises self._async_mode into *)
(* the request, urlopen waits for the answer, _process_response reads      *)
(* self._async_mode again.  Nothing locks the attribute in between, so the *)
(* other thread's set_async_mode, or the set_async_mode(True) and          *)
(* set_async_mode(False) of a schema helper it runs, can take effect at    *)
(* any point.                                                              *)
(***************************************************************************)
InitCrud ==
    /\ AsyncAtRest
    /\ FilterAtRest
    /\ ShapeAtRest
    /\ BuildAtRest
    /\ SignAtRest
    /\ S3AtRest

\* set_async_mode(mode) on the other thread
SetAsyncMode(mode) ==
    /\ async_mode' = mode
    /\ UNCHANGED <<pc, call, wire, response, result, task, varsFilter, varsShape, varsBuild, varsSign, varsS3>>

\* read / create / update / delete, up to the sending of the request:
\* process_payload puts json.dumps(self.get_async_mode()) in the payload
CrudSend(request_type, entity_type) ==
    /\ pc = "idle"
    /\ call' = [op |-> "crud", request_type |-> request_type, decoded_async |-> "pending"]
    /\ wire' = <<CrudRequest(request_type, entity_type, JsonBool(async_mode))>>
    /\ pc' = "crud_wait"
    /\ UNCHANGED <<async_mode, response, result, task, varsFilter, varsShape, varsBuild, varsSign, varsS3>>

\* the rest of _send_request: _http_request returns or raises, then
\* _process_response decodes by self.get_async_mode() as it is now;
\* decoded_async remembers that mode
CrudReturn(outcome) ==
    /\ pc = "crud_wait"
    /\ outcome \in CrudOutcomes(wire[1].async)
    /\ LET delivered == _http_request(outcome)
       IN /\ result' = IF IsError(delivered) THEN delivered
                       ELSE _process_response(async_mode, delivered.body)
          /\ call' = [call EXCEPT !.decoded_async =
                         IF IsError(delivered) THEN "not decoded" ELSE JsonBool(async_mode)]
    /\ wire' = Append(wire, Received(outcome))
    /\ pc' = "done"
    /\ UNCHANGED <<async_mode, response, task, varsFilter, varsShape, varsBuild, varsSign, varsS3>>

NextCrud ==
    \/ \E mode \in BOOLEAN : SetAsyncMode(mode)
    \/ \E request_type \in CrudMethods, entity_type \in EntityTypes : CrudSend(request_type, entity_type)
    \/ \E flag \in {"true", "false"} : \E outcome \in CrudOutcomes(flag) : CrudReturn(outcome)
    \/ Return

SpecCrud == InitCrud /\ [][NextCrud]_vars

(***************************************************************************)
(* The storage credential cache: NumCallers threads call enable_s3, upload *)
(* (enable_s3 then _s3_upload, as upload_attachment does) and download     *)
(* (_s3_download) on one Api object while the clock advances.  A thread    *)
(* takes one statement that touches self._s3_credentials per step.         *)
(***************************************************************************)
InitS3 ==
    /\ S3AtRest
    /\ FilterAtRest
    /\ ShapeAtRest
    /\ AsyncAtRest
    /\ BuildAtRest
    /\ SignAtRest

S3Ops == {"enable_s3", "upload", "download"}

\* a thread whose call has returned or raised: its locals are gone
Finished(r) == [IdleThread EXCEPT !.result = r]

\* where a thread goes when enable_s3 has returned
AfterEnable(t) ==
    IF th[t].op = "upload"
    THEN [th[t] EXCEPT !.pc = "_s3_request", !.i = 1]
    ELSE Finished(Returned)

\* the refresh requests sent and not answered yet
InFlight == {t \in Callers : th[t].pc = "urlopen"}

\* a thread enters enable_s3, upload_attachment or _s3_download
CallS3(t, op) ==
    /\ th[t].pc = "idle"
    /\ calls < MaxCalls
    /\ calls' = calls + 1
    /\ th' = [th EXCEPT ![t] =
                [IdleThread EXCEPT
                    !.op = op,
                    !.pc = IF op = "download" THEN "_s3_request" ELSE "_is_s3_expired",
                    !.i = 1]]
    /\ UNCHANGED <<s3_credentials, s3_client, now, responses, last_signed,
                   failed_refreshes, varsFilter, varsShape, varsAsync, varsBuild, varsSign>>

\* enable_s3: if self._is_s3_expired(): ...
CheckExpired(t) ==
    /\ th[t].pc = "_is_s3_expired"
    /\ th' = [th EXCEPT ![t] =
                IF _is_s3_expired(s3_credentials, now)
                THEN [th[t] EXCEPT !.pc = "_get_s3_security_token"]
                ELSE AfterEnable(t)]
    /\ UNCHANGED <<s3_credentials, s3_client, now, responses, last_signed,
                   failed_refreshes, calls, varsFilter, varsShape, varsAsync, varsBuild, varsSign>>

\* _get_s3_security_token: the refresh request is sent
RefreshSend(t) ==
    /\ th[t].pc = "_get_s3_security_token"
    /\ Len(responses) + Cardinality(InFlight) < MaxRefreshes
    /\ th' = [th EXCEPT ![t].pc = "urlopen"]
    /\ UNCHANGED <<s3_credentials, s3_client, now, responses, last_signed,
                   failed_refreshes, calls, varsFilter, varsShape, varsAsync, varsBuild, varsSign>>

\* _get_s3_security_token: _http_request raises, or returns a response
\* that decode_payload decodes
RefreshReceive(t, shape, instant) ==
    /\ th[t].pc = "urlopen"
    /\ LET id == Len(responses) + 1
           data == RefreshPayload(id, shape, instant)
       IN /\ responses' = Append(responses, data)
          /\ IF shape = "error"
             THEN /\ th' = [th EXCEPT ![t] = Finished(Raised("URLError"))]
                  /\ failed_refreshes' = failed_refreshes \cup {id}
             ELSE /\ th' = [th EXCEPT ![t].pc = "_setup_s3_client",
                                      ![t].i = 1,
                                      ![t].data = data]
                  /\ UNCHANGED failed_refreshes
    /\ UNCHANGED <<s3_credentials, s3_client, now, last_signed, calls,
                   varsFilter, varsShape, varsAsync, varsBuild, varsSign>>

\* _setup_s3_client: self._s3_credentials[key] = data[key] (or
\* data["ack"][key], a KeyError when the response has no "ack")
SetupStep(t) ==
    /\ th[t].pc = "_setup_s3_client"
    /\ LET key == CredentialKeys[th[t].i]
       IN IF key \in AckKeys /\ th[t].data.shape = "no_ack"
          THEN /\ th' = [th EXCEPT ![t] = Finished(Raised("KeyError"))]
               /\ failed_refreshes' = failed_refreshes \cup {th[t].data.id}
               /\ UNCHANGED s3_credentials
          ELSE /\ s3_credentials' =
                     [s3_credentials EXCEPT ![key] = PayloadValue(th[t].data, key)]
               /\ th' = [th EXCEPT
                            ![t].pc = IF th[t].i = Len(CredentialKeys)
                                      THEN "PoolManager" ELSE "_setup_s3_client",
                            ![t].i = th[t].i + 1]
               /\ UNCHANGED failed_refreshes
    /\ UNCHANGED <<s3_client, now, responses, last_signed, calls,
                   varsFilter, varsShape, varsAsync, varsBuild, varsSign>>

\* _setup_s3_client: self._s3_client = urllib3.PoolManager(...), and the
\* return of _get_s3_security_token and enable_s3
CreateClient(t) ==
    /\ th[t].pc = "PoolManager"
    /\ s3_client' = TRUE
    /\ th' = [th EXCEPT ![t] = AfterEnable(t)]
    /\ UNCHANGED <<s3_credentials, now, responses, last_signed,
                   failed_refreshes, calls, varsFilter, varsShape, varsAsync, varsBuild, varsSign>>

\* _s3_request: one read of self._s3_credentials[key] (a KeyError when the
\* key was never set)
ReadStep(t) ==
    /\ th[t].pc = "_s3_request"
    /\ LET key == RequestKeys[th[t].i]
       IN IF s3_credentials[key] = Absent
          THEN th' = [th EXCEPT ![t] = Finished(Raised("KeyError"))]
          ELSE th' = [th EXCEPT
                         ![t].loc = [th[t].loc EXCEPT ![key] = s3_credentials[key]],
                         ![t].pc = IF th[t].i = Len(RequestKeys)
                                   THEN "sign" ELSE "_s3_request",
                         ![t].i = th[t].i + 1]
    /\ UNCHANGED <<s3_credentials, s3_client, now, responses, last_signed,
                   failed_refreshes, calls, varsFilter, varsShape, varsAsync, varsBuild, varsSign>>

\* _s3_request: date = datetime.utcnow(), the signature is computed from
\* the values read, and self._s3_client.urlopen sends the request (an
\* AttributeError when no client was ever created)
SignAndSend(t) ==
    /\ th[t].pc = "sign"
    /\ last_signed' = Signed(IF th[t].op = "upload" THEN "PUT" ELSE "GET",
                          th[t].loc, now)
    /\ th' = [th EXCEPT ![t] = Finished(IF s3_client THEN Returned
                                         ELSE Raised("AttributeError"))]
    /\ UNCHANGED <<s3_credentials, s3_client, now, responses,
                   failed_refreshes, calls, varsFilter, varsShape, varsAsync, varsBuild, varsSign>>

\* the wall clock advances
Tick ==
    /\ now < MaxClock
    /\ now' = now + 1
    /\ UNCHANGED <<s3_credentials, s3_client, th, responses, last_signed,
                   failed_refreshes, calls, varsFilter, varsShape, varsAsync, varsBuild, varsSign>>

\* what the server may answer to a refresh request at this instant
RefreshShapes == {"full", "no_ack", "error"}
Expirations == {now + SessionTTL}

NextS3 ==
    \/ \E t \in Callers, op \in S3Ops : CallS3(t, op)
    \/ \E t \in Callers : CheckExpired(t)
    \/ \E t \in Callers : RefreshSend(t)
    \/ \E t \in Callers, shape \in RefreshShapes, instant \in Expirations :
          RefreshReceive(t, shape, instant)
    \/ \E t \in Callers : SetupStep(t)
    \/ \E t \in Callers : CreateClient(t)
    \/ \E t \in Callers : ReadStep(t)
    \/ \E t \in Callers : SignAndSend(t)
    \/ Tick

SpecS3 == InitS3 /\ [][NextS3]_vars

(***************************************************************************)
(* The payload builders: the caller picks the arguments and calls          *)
(* build_payload (as create, update and delete do, with fields=None) or    *)
(* build_read_payload (as read does) once.                                 *)
(***************************************************************************)
InitBuild ==
    /\ build_in \in BuildPayloadCalls \cup BuildReadPayloadCalls
    /\ build_out = NotRun
    /\ FilterAtRest
    /\ ShapeAtRest
    /\ AsyncAtRest
    /\ SignAtRest
    /\ S3AtRest

CallBuildPayload ==
    /\ build_out = NotRun
    /\ build_in.fn = "build_payload"
    /\ build_out' = build_payload(build_in.request_type, build_in.entity_type,
                                  build_in.fields, build_in.data)
    /\ UNCHANGED <<build_in, varsFilter, varsShape, varsAsync, varsSign, varsS3>>

CallBuildReadPayload ==
    /\ build_out = NotRun
    /\ build_in.fn = "build_read_payload"
    /\ build_out' = build_read_payload(build_in.entity_type, build_in.fields,
                                       build_in.filters, build_in.sorts, build_in.groups,
                                       build_in.pages, build_in.additional_filters)
    /\ UNCHANGED <<build_in, varsFilter, varsShape, varsAsync, varsSign, varsS3>>

NextBuild == CallBuildPayload \/ CallBuildReadPayload

SpecBuild == InitBuild /\ [][NextBuild]_vars

(***************************************************************************)
(* Request signing: _s3_request is called once with a method, a body and   *)
(* the cached credentials, at some date.                                   *)
(***************************************************************************)
Methods == {"PUT", "GET"}
Bodies == {NoBody, Bytes(0), Bytes(3)}
\* what utils._generate_headers returned: nothing, or a checksum set already
GeneratedHeaders == {<<>>, << <<"Content-MD5", "md5-set">> >>}
SigningCredentials ==
    {[EndPoint |-> e, Secure |-> s, Bucket |-> "bucket", Region |-> "us-east-1",
      AccessKeyId |-> "AK", SecretAccessKey |-> "SK", SessionToken |-> token] :
        e \in {"oss.example.com"}, s \in BOOLEAN, token \in {"tok", "to  k"}}
Dates == {"20210101", "20210102"}

SignInputs ==
    {[method |-> method, object_name |-> "obj.mov", body |-> body,
      credentials |-> credentials, generated |-> generated, date |-> date] :
        method \in Methods, body \in Bodies, credentials \in SigningCredentials,
        generated \in GeneratedHeaders, date \in Dates}

InitSign ==
    /\ sign_in \in SignInputs
    /\ sign_out = NotRun
    /\ FilterAtRest
    /\ ShapeAtRest
    /\ AsyncAtRest
    /\ BuildAtRest
    /\ S3AtRest

CallS3Request ==
    /\ sign_out = NotRun
    /\ sign_out' = _s3_request(sign_in.method, sign_in.object_name, sign_in.body,
                               sign_in.credentials, sign_in.generated, sign_in.date)
    /\ UNCHANGED <<sign_in, varsFilter, varsShape, varsAsync, varsBuild, varsS3>>

NextSign == CallS3Request

SpecSign == InitSign /\ [][NextSign]_vars

(***************************************************************************)
(* Properties of the filter compiler.                                      *)
(***************************************************************************)
FilterDone == filter_out # NotRun

\* [field, relation, value] with a scalar field and a non-empty scalar relation
WellFormedTriple(t) ==
    /\ Len(t) = 3
    /\ IsStr(t[1])
    /\ IsStr(t[2]) /\ t[2].s # ""

\* the leaf {path, relation, values} the documentation gives for a triple
LeafOfTriple(t) ==
    Leaf(t[1], t[2], IF t[3].k = "list" THEN t[3].items ELSE <<t[3]>>)

HasLeadingOperator(e) == Len(e) > 0 /\ IsOperatorToken(e[1])
LeadingOperator(e) == IF HasLeadingOperator(e) THEN e[1].s ELSE "and"
Body(e) == IF HasLeadingOperator(e) THEN Tail(e) ELSE e

\* [t1, ..., tn], n >= 1, optionally preceded by "or" or "and"
IsTripleList(e) ==
    /\ Len(Body(e)) >= 1
    /\ \A i \in DOMAIN Body(e) :
          IsList(Body(e)[i]) /\ WellFormedTriple(Body(e)[i].items)

\* C1: a list of well-formed triples, optionally preceded by "or"/"and",
\* compiles to one group carrying the leading operator ("and" by default)
\* whose conditions are exactly one bare leaf per triple, in input order
\* (a leaf reached through recursion is not wrapped in a group of its own).
C1_TripleListGivesFlatGroup ==
    (FilterDone /\ IsTripleList(filter_in)) =>
        filter_out = Group(LeadingOperator(filter_in),
                           [i \in DOMAIN Body(filter_in) |->
                               LeafOfTriple(Body(filter_in)[i].items)])

\* a flat triple with a non-empty relation and a scalar value
IsFlatScalarTriple(e) == WellFormedTriple(e) /\ IsStr(e[3])

\* C2: every flat triple [field, relation, value] with a non-empty relation
\* and a scalar value compiles to {operator: "and", conditions: [{path:
\* field, relation: relation, values: [value]}]}, whatever the field name.
C2_FlatTripleGivesAndGroup ==
    (FilterDone /\ IsFlatScalarTriple(filter_in)) =>
        filter_out = Group("and", <<Leaf(filter_in[1], filter_in[2], <<filter_in[3]>>)>>)

\* the nested form: after an optional leading operator every element is a list
IsNestedForm(e) == \A i \in DOMAIN Body(e) : IsList(Body(e)[i])

\* the expression, or a sub-expression reached by recursion, is empty, or is
\* treated as a leaf and has other than 3 elements or an empty relation
RECURSIVE Malformed(_)
Malformed(e) ==
    \/ Len(e) = 0
    \/ /\ Len(e) > 0
       /\ IF IsNestedForm(e)
          THEN \E i \in DOMAIN Body(e) : Malformed(Body(e)[i].items)
          ELSE Len(e) # 3 \/ ~Truthy(e[2])

\* C3: process_filters raises, and returns no condition tree, whenever the
\* expression or a sub-expression reached by recursion is empty, or is
\* treated as a leaf and has other than 3 elements or an empty relation.
C3_MalformedFilterRaises ==
    (FilterDone /\ Malformed(filter_in)) => IsError(filter_out)

\* C3 witness: a nested expression whose second sub-expression is a leaf
\* with an empty relation has been compiled, and the call raised.
C3_Witness ==
    /\ FilterDone
    /\ Len(filter_in) = 2
    /\ IsList(filter_in[1]) /\ ~Malformed(filter_in[1].items)
    /\ IsList(filter_in[2]) /\ Len(filter_in[2].items) = 3
    /\ ~Truthy(filter_in[2].items[2])
    /\ IsError(filter_out)

\* the leaves of a condition tree
RECURSIVE LeavesOf(_)
LeavesOf(tree) ==
    IF tree.k = "leaf" THEN {tree}
    ELSE UNION {LeavesOf(tree.conditions[i]) : i \in DOMAIN tree.conditions}

\* the sub-expressions of an accepted expression that are compiled as leaves
RECURSIVE LeafExprs(_)
LeafExprs(e) ==
    IF Len(e) = 0 THEN {}
    ELSE IF IsNestedForm(e)
         THEN UNION {LeafExprs(Body(e)[i].items) : i \in DOMAIN Body(e)}
         ELSE {e}

\* C4 as stated: every leaf of every returned condition tree has a
\* non-empty values list.
C4_LeafValuesNeverEmpty ==
    (FilterDone /\ ~IsError(filter_out)) =>
        \A leaf \in LeavesOf(filter_out) : Len(leaf.values) > 0

\* C4 amended: every leaf of every returned condition tree has one path, one
\* non-empty relation and a values list that is the input value itself when
\* that is a list and the one-element list [value] when it is a scalar; the
\* values list is empty exactly when the input value is the empty list.
C4_LeafShape ==
    (FilterDone /\ ~IsError(filter_out)) =>
        \A leaf \in LeavesOf(filter_out) :
            /\ Truthy(leaf.relation)
            /\ \E t \in LeafExprs(filter_in) :
                  /\ leaf.path = t[1]
                  /\ leaf.relation = t[2]
                  /\ IF t[3].k = "list"
                     THEN leaf.values = t[3].items
                     ELSE leaf.values = <<t[3]>>
                  /\ (Len(leaf.values) = 0 <=> t[3] = Lst(<<>>))

\* C4 witness: a tree has been returned that holds a leaf with an empty
\* values list and a leaf whose scalar value became a one-element list.
C4_Witness ==
    /\ FilterDone /\ ~IsError(filter_out)
    /\ \E a, b \in LeavesOf(filter_out) :
          /\ a.values = <<>>
          /\ b.values = <<Str("x")>>

(***************************************************************************)
(* Properties of the async-task lifecycle.                                 *)
(***************************************************************************)
LastEvent == wire[Len(wire)]

\* the running call has received an answer, and it is the last thing on the wire
Answered == Len(wire) > 0 /\ LastEvent.ev = "received"

IsResponse(o) == o.k = "response"
IsRunningResponse(o) == IsResponse(o) /\ o.status = 202
\* a response with a status other than "still running"
IsTerminalResponse(o) == IsResponse(o) /\ o.status # 202
\* a terminal response that urlopen returns instead of raising HTTPError
IsDeliveredTerminal(o) == IsTerminalResponse(o) /\ o.status \in 200..299

ResolveDone == pc = "done" /\ call.op = "resolve"
PollDone == pc = "done" /\ call.op = "poll"
SubmitDone == pc = "done" /\ call.op = "submit"

\* {success: true, data: [{success: true, rows: [r]}]}: one row, no paging
OneRowBody(r) ==
    StatusBody(TRUE, <<Item(TRUE, <<r>>, Absent, Absent, Absent)>>, Absent)

\* resolve_async_task has run on the task id of a create_entity_type submit
\* and its status request got a terminal response with the one-row body
C5_Scenario(r) ==
    /\ ResolveDone
    /\ task # NoTask /\ task.helper = "create_entity_type"
    /\ call.task_id = task.id
    /\ Answered
    /\ IsDeliveredTerminal(LastEvent.outcome)
    /\ LastEvent.outcome.body = OneRowBody(r)

TaskRows == {[id |-> 7, name |-> "Foo"], [id |-> 8, name |-> "Bar"]}

\* C5 as stated: in the end-to-end scenario (create-entity-type submit,
\* then a terminal status response with exactly one row r and no paging)
\* resolve_async_task returns the row object r itself.
C5_ResolveReturnsRowObject ==
    \A r \in TaskRows : C5_Scenario(r) => result = RowValue(r)

\* C5 amended: in that scenario resolve_async_task returns the one-element
\* list [r]: without paging there is no page_size, and get_rows returns the
\* rows list unchanged.
C5_ResolveReturnsRowList ==
    \A r \in TaskRows : C5_Scenario(r) => result = RowsValue(<<r>>)

\* C5 witness: the scenario has run with r = {id: 7, name: "Foo"} and the
\* call returned [r].
C5_Witness ==
    /\ C5_Scenario([id |-> 7, name |-> "Foo"])
    /\ result = RowsValue(<<[id |-> 7, name |-> "Foo"]>>)

\* the wire of a polling call that was answered "still running" k times:
\* k rounds of request, 202 answer, sleep, then a request and its answer
IsPollWire(w, k, id) ==
    /\ Len(w) = 3 * k + 2
    /\ \A i \in 1..(3 * k) :
          /\ (i % 3 = 1) => w[i] = StatusRequest(id)
          /\ (i % 3 = 2) => (w[i].ev = "received" /\ IsRunningResponse(w[i].outcome))
          /\ (i % 3 = 0) => w[i].ev = "sleep"
    /\ w[3 * k + 1] = StatusRequest(id)
    /\ w[3 * k + 2].ev = "received" /\ ~IsRunningResponse(w[3 * k + 2].outcome)

CountEvents(w, ev) == Cardinality({i \in DOMAIN w : w[i].ev = ev})

\* C6: when the status request is answered "still running" k times and then
\* with a terminal status, polling_async_task has issued exactly k + 1
\* status requests and k sleeps, each sleep between a 202 answer and the
\* next request, nothing after the terminal answer, and its outcome is the
\* decoding of that terminal response (an error when urlopen raises for it).
C6_PollRequestsAndSleeps ==
    (PollDone /\ Answered /\ IsTerminalResponse(LastEvent.outcome)) =>
        LET k == RunningAnswers(wire) IN
        /\ IsPollWire(wire, k, call.task_id)
        /\ CountEvents(wire, "status_request") = k + 1
        /\ CountEvents(wire, "sleep") = k
        /\ IF IsDeliveredTerminal(LastEvent.outcome)
           THEN result = _process_async_task_response(LastEvent.outcome.body)
           ELSE IsError(result)

\* C6 witness: a polling call was answered "still running" twice and then
\* with a terminal success, and returned its two rows after two sleeps.
C6_Witness ==
    /\ PollDone
    /\ RunningAnswers(wire) = 2
    /\ CountEvents(wire, "sleep") = 2
    /\ IsDeliveredTerminal(LastEvent.outcome)
    /\ result = RowsValue(<<[id |-> 7, name |-> "Foo"], [id |-> 8, name |-> "Bar"]>>)

InPolling == pc \in {"poll_request", "poll_wait", "poll_check", "poll_sleep"}

\* the polling call has received an answer other than "still running"
PollAnsweredTerminal ==
    /\ call.op = "poll"
    /\ Answered
    /\ ~IsRunningResponse(LastEvent.outcome)

\* C7: polling_async_task leaves the Polling state only on an answer other
\* than "still running" (it has no attempt cap or timeout of its own); once
\* such an answer has arrived nothing more is requested or slept, the call
\* ends, and it ends either Succeeded (a value is returned) or Failed (an
\* error is raised).
C7_PollingEndsOnlyOnTerminal ==
    /\ [][(InPolling /\ pc' = "done") => PollAnsweredTerminal']_vars
    /\ [][PollAnsweredTerminal => (wire' = wire \/ (pc = "done" /\ pc' = "idle"))]_vars
    /\ (PollAnsweredTerminal ~> PollDone)
    /\ [](PollDone =>
            /\ result # NotRun
            /\ (IsError(result) <=> result.k \notin {"rows", "row", "groups"}))

\* C7 witness: a polling call was answered "still running" and then with a
\* terminal response whose body reports a failure, and ended Failed.
C7_Witness ==
    /\ PollDone
    /\ RunningAnswers(wire) >= 1
    /\ IsDeliveredTerminal(LastEvent.outcome)
    /\ ~LastEvent.outcome.body.success
    /\ result.k = "error" /\ result.exc = "RequestFailed"

\* the dict of a response body ({} when the body is an empty list's element)
BodyDict(body) == IF body.k = "json_list" THEN body.items[1] ELSE body

\* the response says success: it is delivered and its body has success = true
ReportsSuccess(o) ==
    /\ IsResponse(o) /\ o.status \in 200..299
    /\ BodyDict(o.body) # EmptyDict /\ BodyDict(o.body).success

\* the response says failure: its body has success = false
ReportsFailure(o) ==
    /\ IsResponse(o)
    /\ BodyDict(o.body) # EmptyDict /\ ~BodyDict(o.body).success

IsRequestFailed(r) == r.k = "error" /\ r.exc = "RequestFailed"

\* C8: every async submit sends exactly one CRUD request, marked
\* async = "true", and no status request; it returns the server's task id
\* exactly when the immediate response reports success, and raises
\* RequestFailed exactly when the immediate response reports failure.
C8_SubmitOutcome ==
    SubmitDone =>
        /\ wire[1].ev = "crud_request" /\ wire[1].async = "true"
        /\ CountEvents(wire, "crud_request") = 1
        /\ CountEvents(wire, "status_request") = 0
        /\ (result.k = "task" <=> ReportsSuccess(LastEvent.outcome))
        /\ (result.k = "task" => result.id = LastEvent.outcome.body.task_id.s)
        /\ (IsRequestFailed(result) <=> ReportsFailure(LastEvent.outcome))

\* C8, on the responses urlopen returns (no HTTP error status): the claim
\* holds there.
C8_SubmitOutcomeWhenDelivered ==
    (SubmitDone /\ IsResponse(LastEvent.outcome) /\ LastEvent.outcome.status \in 200..299) =>
        /\ wire[1].ev = "crud_request" /\ wire[1].async = "true"
        /\ CountEvents(wire, "crud_request") = 1
        /\ CountEvents(wire, "status_request") = 0
        /\ (result.k = "task" <=> ReportsSuccess(LastEvent.outcome))
        /\ (result.k = "task" => result.id = LastEvent.outcome.body.task_id.s)
        /\ (IsRequestFailed(result) <=> ReportsFailure(LastEvent.outcome))

\* the part of a status response that reports the failure: the body itself,
\* or the first element of its data
FailingPart(o) ==
    LET d == BodyDict(o.body) IN
    IF d.k = "status_body" /\ d.success THEN d.data[1] ELSE d

\* the status response reports success = false, in its body or in the first
\* element of its data
TaskReportsFailure(o) ==
    /\ IsResponse(o)
    /\ LET d == BodyDict(o.body) IN
       /\ d # EmptyDict
       /\ (d.k = "status_body" /\ d.success) => (Len(d.data) > 0 /\ d.data[1] # EmptyDict)
       /\ ~FailingPart(o).success

\* a failure is implied but nothing is said: the payload is empty
TaskPayloadEmpty(o) ==
    /\ IsResponse(o)
    /\ LET d == BodyDict(o.body) IN
       \/ d = EmptyDict
       \/ (d.k = "status_body" /\ d.success /\ Len(d.data) > 0 /\ d.data[1] = EmptyDict)

\* the exception carries the server's message
CarriesMessage(r, message) ==
    /\ (message.k = "str") =>
          r.msg \in {"Request Failed: " \o message.s, "ERROR: " \o message.s}
    /\ (message.k = "detail") =>
          r.msg \in {"Request Failed: " \o message.detail, "ERROR: " \o message.detail}

\* C9: resolve_async_task issues exactly one status request and never
\* sleeps; when the task payload reports success = false it raises
\* RequestFailed carrying the server message, and when a failure is implied
\* but no message is present (the payload is empty) it raises UnknownError.
C9_ResolveOutcome ==
    ResolveDone =>
        /\ wire = <<StatusRequest(call.task_id), Received(LastEvent.outcome)>>
        /\ TaskReportsFailure(LastEvent.outcome) =>
              (IsRequestFailed(result)
                  /\ CarriesMessage(result, FailingPart(LastEvent.outcome).message))
        /\ TaskPayloadEmpty(LastEvent.outcome) =>
              (result.k = "error" /\ result.exc = "UnknownError")

\* C9, on the responses urlopen returns (no HTTP error status): the claim
\* holds there.
C9_ResolveOutcomeWhenDelivered ==
    (ResolveDone /\ IsResponse(LastEvent.outcome) /\ LastEvent.outcome.status \in 200..299) =>
        /\ wire = <<StatusRequest(call.task_id), Received(LastEvent.outcome)>>
        /\ TaskReportsFailure(LastEvent.outcome) =>
              (IsRequestFailed(result)
                  /\ CarriesMessage(result, FailingPart(LastEvent.outcome).message))
        /\ TaskPayloadEmpty(LastEvent.outcome) =>
              (result.k = "error" /\ result.exc = "UnknownError")

(***************************************************************************)
(* Properties of group_by.                                                 *)
(***************************************************************************)
GroupByDone == shape_op = "group_by"

\* the positions of the ids of a group that some row matches
MatchedPositions(rows, ids) ==
    {p \in DOMAIN ids : \E i \in DOMAIN rows : rows[i].id = ids[p]}

\* the j-th smallest element of a set of positions
NthPosition(P, j) == CHOOSE p \in P : Cardinality({q \in P : q <= p}) = j

\* the rows with a given id, as positions in the row list
RowsWithId(rows, id) == {i \in DOMAIN rows : rows[i].id = id}
Least(S) == CHOOSE i \in S : \A j \in S : i <= j

\* for each id of the group that has a matching row, in the order of the
\* ids, the first row of the payload with that id
ExpectedChildren(rows, ids) ==
    [j \in 1..Cardinality(MatchedPositions(rows, ids)) |->
        rows[Least(RowsWithId(rows, ids[NthPosition(MatchedPositions(rows, ids), j)]))]]

\* get_rows hands group_by a single row object instead of a list
SingleRowCase(payload) == PageSizeIsOne(payload.paging) /\ Len(payload.rows) > 0

InSeq(x, seq) == \E i \in DOMAIN seq : seq[i] = x

\* C10 as stated: in the groups group_by returns, in the server's order,
\* no row is placed in the children of more than one group, even when its
\* id is listed in several groups.
C10_NoRowInTwoGroups ==
    (GroupByDone /\ shape_out.k = "groups") =>
        /\ Len(shape_out.groups) = Len(shape_in.groups.list)
        /\ \A g, h \in DOMAIN shape_out.groups :
              /\ shape_out.groups[g].display_name = shape_in.groups.list[g].display_name
              /\ g # h =>
                    \A a \in DOMAIN shape_out.groups[g].children :
                        ~InSeq(shape_out.groups[g].children[a],
                               shape_out.groups[h].children)

\* C10 amended: group_by returns one group per descriptor, in the server's
\* order and with its display_name; the children of a group are, for each
\* of its ids in order, the first row of the payload with that id, ids with
\* no matching row being skipped.  Every group is scanned against the whole
\* row list, so a row whose id is listed in several groups is a child of
\* each of them, and an id listed twice in one group attaches its row
\* twice.  When paging has page_size == 1 and the rows are not empty,
\* get_rows hands group_by a single row object and group_by raises
\* AttributeError as soon as one group has an id to scan.
C10_GroupByChildren ==
    (GroupByDone /\ shape_in.groups # Absent) =>
        IF SingleRowCase(shape_in)
           /\ \E g \in DOMAIN shape_in.groups.list : Len(shape_in.groups.list[g].ids) > 0
        THEN shape_out = Raised("AttributeError")
        ELSE /\ shape_out.k = "groups"
             /\ Len(shape_out.groups) = Len(shape_in.groups.list)
             /\ \A g \in DOMAIN shape_out.groups :
                   /\ shape_out.groups[g].display_name =
                         shape_in.groups.list[g].display_name
                   /\ shape_out.groups[g].children =
                         IF SingleRowCase(shape_in) THEN <<>>
                         ELSE ExpectedChildren(shape_in.rows, shape_in.groups.list[g].ids)

\* C10 witness: group_by has returned two groups, in the server's order,
\* that both hold the row with id 7, the first of them twice and after the
\* row with id 8, the payload's first row with id 7 being {7, "b"}.
C10_Witness ==
    /\ GroupByDone
    /\ shape_in.rows = <<[id |-> 8, name |-> "a"], [id |-> 7, name |-> "b"]>>
    /\ shape_in.groups = Groups(<<GroupDescriptor("A", <<8, 7>>), GroupDescriptor("B", <<7>>)>>)
    /\ shape_out = GroupsValue(<<
          [display_name |-> "A",
           children |-> <<[id |-> 8, name |-> "a"], [id |-> 7, name |-> "b"]>>],
          [display_name |-> "B", children |-> <<[id |-> 7, name |-> "b"]>>] >>)

(***************************************************************************)
(* C11                                                                     *)
(***************************************************************************)
GetRowsDone == shape_op = "get_rows"

\* the payload's paging has page_size == 1 and the rows are non-empty
SingleItemPage(payload) == payload.paging = Paging(1) /\ payload.rows # <<>>

\* C11: get_rows returns a single row object exactly when the payload's
\* paging has page_size == 1 and the rows are non-empty, and it is then the
\* first row; in every other case (page_size absent or different from 1, or
\* rows empty) it returns the full rows list unchanged, the empty list
\* included.
C11_GetRowsSingleOrList ==
    GetRowsDone =>
        /\ shape_out.k \in {"row", "rows"}
        /\ shape_out.k = "row" <=> SingleItemPage(shape_in)
        /\ shape_out.k = "row" => shape_out.row = shape_in.rows[1]
        /\ shape_out.k = "rows" => shape_out.rows = shape_in.rows

\* C11 witness: a page of size 1 with two rows gave the first row alone.
C11_Witness ==
    /\ GetRowsDone
    /\ shape_in.paging = Paging(1)
    /\ shape_in.rows = <<[id |-> 7, name |-> "b"], [id |-> 8, name |-> "a"]>>
    /\ shape_out = RowValue([id |-> 7, name |-> "b"])

(***************************************************************************)
(* Properties of the storage credential cache.                             *)
(***************************************************************************)
\* the refresh response a cached or signed value was taken from
ResponseOf(value) == responses[value.of]

\* the keys whose values the server lets expire
SecretKeys == {"AccessKeyId", "SecretAccessKey", "SessionToken"}

\* C12: in every sequence of enable_s3, upload, download and clock
\* advances, no storage request is signed or sent with credentials for
\* which now >= expiration, the instant now == expiration included (a
\* signing attempt at or past expiration fails instead of producing a
\* signed request).
C12_NeverSignedAtOrPastExpiration ==
    last_signed # NotSigned =>
        \A key \in SecretKeys :
            last_signed.date < ResponseOf(last_signed.fields[key]).expiration

\* C13: the cached credentials change only through a successful refresh:
\* no cached field holds a value written by a refresh that failed (its
\* request raised, or its response lacked the "ack" block).
C13_FailedRefreshLeavesCacheUnchanged ==
    \A key \in DOMAIN s3_credentials :
        s3_credentials[key] # Absent => s3_credentials[key].of \notin failed_refreshes

\* C14: when several callers run enable_s3 concurrently while the cached
\* credentials are expired, at most one network refresh request is issued
\* for that expiry: no two refresh requests are ever in flight together.
C14_SingleFlightRefresh == Cardinality(InFlight) <= 1

\* the fields a signed request takes from the cache, as the claim lists them
SignedKeys ==
    {"EndPoint", "Bucket", "Region", "AccessKeyId", "SecretAccessKey", "SessionToken"}

\* C15: under any interleaving of concurrent uploads and credential
\* refreshes, every signed storage request uses an endpoint, bucket,
\* region, access key, secret key and session token that all come from the
\* same refresh response.
C15_SignedFieldsFromOneRefresh ==
    last_signed # NotSigned =>
        \A k1, k2 \in SignedKeys :
            last_signed.fields[k1].of = last_signed.fields[k2].of

(***************************************************************************)
(* Properties of the payload builders.                                     *)
(***************************************************************************)
BuildDone == build_out # NotRun
IsRead == build_in.fn = "build_read_payload"

\* the one payload of a returned list
Built == build_out.items[1]

\* key is present in the built payload exactly when argument arg is truthy
PresentIffTruthy(key, arg) == (Built[key] # Absent) <=> PyTruthy(arg)

\* the keys of the claim, each against its argument
KeysFollowArguments ==
    /\ PresentIffTruthy("columns", build_in.fields)
    /\ Built.columns # Absent => Built.columns = build_in.fields
    /\ IF IsRead
       THEN /\ PresentIffTruthy("filters", build_in.filters)
            /\ PresentIffTruthy("sorts", build_in.sorts)
            /\ Built.sorts # Absent => Built.sorts = build_in.sorts
            /\ PresentIffTruthy("grouping", build_in.groups)
            /\ Built.grouping # Absent => Built.grouping = build_in.groups
            /\ Built.paging = build_in.pages
            /\ Built.data = Absent
       ELSE /\ PresentIffTruthy("data", build_in.data)
            /\ Built.data # Absent => Built.data = build_in.data

\* C16 as claimed: build_payload and build_read_payload always return a
\* list of exactly one payload; in it each of columns, data, filters, sorts
\* and grouping is present exactly when the corresponding argument is
\* truthy, and a read payload always contains paging equal to the pages
\* argument, even when that argument is empty.
C16_AlwaysOnePayload ==
    BuildDone =>
        /\ build_out.k = "list"
        /\ Len(build_out.items) = 1
        /\ KeysFollowArguments

\* build_read_payload was given filters that process_filters rejects
FiltersRejected ==
    /\ IsRead
    /\ PyTruthy(build_in.filters)
    /\ IsError(process_filters(build_in.filters.items))

\* C16: build_payload always returns a list of exactly one payload, and so
\* does build_read_payload unless its filters argument is non-empty and
\* process_filters raises on it: that error then propagates and nothing is
\* returned.  In the returned payload each of columns, data, filters, sorts
\* and grouping is present exactly when the corresponding argument is
\* truthy (filters holding the compiled tree, the others the argument
\* itself), and a read payload always contains paging equal to the pages
\* argument, even when that argument is empty.
C16_OnePayloadUnlessFiltersRejected ==
    BuildDone =>
        IF FiltersRejected
        THEN build_out = process_filters(build_in.filters.items)
        ELSE /\ build_out.k = "list"
             /\ Len(build_out.items) = 1
             /\ KeysFollowArguments
             /\ Built.filters # Absent =>
                   Built.filters = process_filters(build_in.filters.items)

\* C16 witness: a read with columns, sorts and an empty pages dict, and
\* with no filters and no grouping, was built: one payload with columns,
\* sorts and the empty paging, and without filters, grouping or data.
C16_Witness ==
    /\ BuildDone
    /\ IsRead
    /\ build_in.pages = Dict({})
    /\ build_in.filters = Dict({})
    /\ PyTruthy(build_in.fields) /\ PyTruthy(build_in.sorts) /\ ~PyTruthy(build_in.groups)
    /\ build_out.k = "list"
    /\ Len(build_out.items) = 1
    /\ Built.paging = Dict({})
    /\ Built.columns = build_in.fields
    /\ Built.sorts = build_in.sorts
    /\ Built.filters = Absent /\ Built.grouping = Absent /\ Built.data = Absent

\* C17: every payload built for a create, update or delete operation
\* contains a data field, and every payload built for a read operation
\* contains none, for every argument the public methods accept (which call
\* build_payload with fields=None), an empty data list included.
C17_DataPresentUnlessRead ==
    (BuildDone /\ build_out.k = "list") =>
        IF IsRead
        THEN Built.data = Absent
        ELSE (build_in.fields = PyNone /\ build_in.data # PyNone) => Built.data # Absent

(***************************************************************************)
(* Properties of request signing.                                          *)
(***************************************************************************)
SignDone == sign_out # NotRun

\* the header names the claim keeps out of the signed set, and those it
\* requires in it
NeverSigned == {"authorization", "content-type", "content-length", "user-agent"}
AlwaysSigned == {"host", "x-amz-content-sha256", "x-amz-date", "x-amz-security-token"}

\* the lower-cased names of the headers sent, without the never-signed ones
SignedNames ==
    {Lower(sign_out.headers[i][1]) : i \in DOMAIN sign_out.headers} \ NeverSigned

\* name a comes before name b in alphabetical order
Before(a, b) == Rank(a) < Rank(b)

\* the names of a set in alphabetical order
RECURSIVE Alphabetical(_)
Alphabetical(S) ==
    IF S = {} THEN <<>>
    ELSE LET first == CHOOSE a \in S : \A b \in S \ {a} : Before(a, b)
         IN <<first>> \o Alphabetical(S \ {first})

\* the value sent for the header with this lower-cased name
SentValue(name) ==
    LET i == CHOOSE j \in DOMAIN sign_out.headers : Lower(sign_out.headers[j][1]) = name
    IN sign_out.headers[i][2]

\* the value as the canonical line carries it: runs of spaces are single
CanonicalValue(name) ==
    IF SentValue(name) = "to  k" THEN "to k" ELSE SentValue(name)

\* C18: for every signed storage request, the signed-header list is the
\* ';'-joined, alphabetically sorted list of the lower-cased header names;
\* it never contains authorization, content-type, content-length or
\* user-agent and always contains host, x-amz-content-sha256, x-amz-date
\* and x-amz-security-token; the canonical header lines name:value appear
\* in that same order; the Authorization header is added only after the
\* signature is computed, and no other header changes after signing.
C18_SignedHeaders ==
    SignDone =>
        LET names == Alphabetical(SignedNames)
            sent == sign_out.headers
        IN /\ sign_out.signed_headers = Join(names, ";")
           /\ AlwaysSigned \subseteq SignedNames
           /\ sign_out.canonical_headers =
                 Join([i \in DOMAIN names |-> names[i] \o ":" \o CanonicalValue(names[i])],
                      "\n")
           /\ ~DictHas(sign_out.signed_over, "Authorization")
           /\ sent[Len(sent)][1] = "Authorization"
           /\ SubSeq(sent, 1, Len(sent) - 1) = sign_out.signed_over

\* C18 witness: an upload of three bytes was signed: content-md5 is signed
\* next to the four required headers, while Content-Type, Content-Length
\* and User-Agent are sent unsigned; the token's run of spaces is single in
\* its canonical line.
C18_Witness ==
    /\ SignDone
    /\ sign_in.method = "PUT" /\ sign_in.body = Bytes(3) /\ sign_in.generated = <<>>
    /\ sign_in.credentials.SessionToken = "to  k"
    /\ sign_in.date = "20210101"
    /\ sign_out.signed_headers =
          "content-md5;host;x-amz-content-sha256;x-amz-date;x-amz-security-token"
    /\ sign_out.canonical_headers =
          "content-md5:md5-3\nhost:oss.example.com\nx-amz-content-sha256:UNSIGNED-PAYLOAD\nx-amz-date:20210101T000000Z\nx-amz-security-token:to k"
    /\ DictHas(sign_out.headers, "Content-Length")
    /\ DictHas(sign_out.headers, "User-Agent")
    /\ DictHas(sign_out.headers, "Content-Type")

(***************************************************************************)
(* C19, C20                                                                *)
(***************************************************************************)
\* the running call has ended on a response with an HTTP error status
EndedOnHttpError ==
    /\ pc = "done"
    /\ Answered
    /\ IsResponse(LastEvent.outcome)
    /\ LastEvent.outcome.status \notin 200..299

\* the exception carries the server message: the string itself, the detail
\* of a {detail} object, else the raw structure serialised
CarriesServerMessage(r, message) ==
    /\ CarriesMessage(r, message)
    /\ (message.k = "other") =>
          r.msg \in {"Request Failed: " \o JsonDumps(message), "ERROR: " \o JsonDumps(message)}

\* C19: every response with an HTTP error status makes the request fail
\* with exactly one of two errors and never returns a value: RequestFailed
\* when the body reports success=false, carrying the server message (the
\* string itself, the detail of a {detail} object, else the raw structure
\* serialised), or UnknownError when the body is empty, carries no
\* structured failure detail, or reports success.
C19_HttpErrorOutcome ==
    EndedOnHttpError =>
        /\ result.k = "error"
        /\ result.exc \in {"RequestFailed", "UnknownError"}
        /\ ReportsFailure(LastEvent.outcome) =>
              /\ IsRequestFailed(result)
              /\ CarriesServerMessage(result, BodyDict(LastEvent.outcome.body).message)
        /\ ~ReportsFailure(LastEvent.outcome) => result.exc = "UnknownError"

\* C20: after any schema submit helper finishes, whether it returns a task
\* id or raises because the submit failed, the client's async mode equals
\* the value it had before the call.
C20_AsyncModeRestored == SubmitDone => async_mode = call.mode_before

\* a CRUD call has returned or raised
CrudDone == pc = "done" /\ call.op = "crud"

\* the response of the finished CRUD call was decoded (no transport error)
CrudDecoded == CrudDone /\ call.decoded_async \in {"true", "false"}

\* C21: for every CRUD request, the mode that decodes its response (task id
\* when async, rows when synchronous) is the async flag serialised into that
\* same request, also when set_async_mode or a schema submit helper runs on
\* another thread between the building of the request and the processing of
\* its response.
C21_DecodedAsSerialised == CrudDecoded => call.decoded_async = wire[1].async

(***************************************************************************)
(* C22                                                                     *)
(***************************************************************************)
ExtractDone == shape_op = "_extract_payload"

\* result extraction has run on a successful payload with group descriptors
ExtractedGrouped == ExtractDone /\ shape_in.k = "item" /\ shape_in.success /\ HasGroups(shape_in)

\* C22: for every successful payload that carries group descriptors, result
\* extraction returns a list of groups {display_name, children}, one per
\* descriptor, in which every child is a row of the payload, whatever the
\* payload's paging is, including page_size == 1 with non-empty rows (where
\* get_rows hands group_by a single row object instead of a list).
C22_GroupedWhateverPaging ==
    ExtractedGrouped =>
        /\ shape_out.k = "groups"
        /\ Len(shape_out.groups) = Len(shape_in.groups.list)
        /\ \A g \in DOMAIN shape_out.groups :
              /\ shape_out.groups[g].display_name = shape_in.groups.list[g].display_name
              /\ \A c \in DOMAIN shape_out.groups[g].children :
                    InSeq(shape_out.groups[g].children[c], shape_in.rows)

====
